---- MODULE Spec2Model ----
(***************************************************************************)
(* GT06 protocol parser (x-camp-id/GT06): the Gt06 session object, its     *)
(* parse and clearMsgBuffer methods, the frame splitter, the per-type      *)
(* decoders and the response builder.                                      *)
(*                                                                         *)
(* A Buffer is a sequence of bytes (0..255).  Offsets are the 0-based      *)
(* offsets of the source; Slice(b, s, e) is b.slice(s, e).                 *)
(***************************************************************************)
EXTENDS Integers, Sequences, FiniteSets, TLC

VARIABLES
    msgBufferRaw,   \* this.msgBufferRaw: the candidate frames of the latest chunk
    msgBuffer,      \* this.msgBuffer: references (heap addresses) of pushed records
    heap,           \* the `parsed` objects reachable from msgBuffer, by address
    self,           \* the fields Object.assign(this, parsed) projects on the session
    now,            \* Date.now(), one tick per parse call
    lastCall,       \* the latest call: its input and what it threw
    cursor          \* a Cursor: its buffer and its offset

vars == <<msgBufferRaw, msgBuffer, heap, self, now, lastCall, cursor>>

\* ------------------------------------------------------------------ bounds

\* parse calls per behaviour
MaxCalls == 2

\* ------------------------------------------------------------ option values

\* An absent property (undefined) is <<>>, a present one <<v>>.
None == <<>>
Some(v) == <<v>>

\* ------------------------------------------------------------------ buffers

Min(S) == CHOOSE x \in S : \A y \in S : x <= y

\* An offset of Buffer.slice: a negative one counts from the end, and both
\* are clamped to the buffer.
SliceOffset(b, x) ==
    IF x < 0 THEN (IF Len(b) + x < 0 THEN 0 ELSE Len(b) + x)
    ELSE IF x > Len(b) THEN Len(b) ELSE x

\* Buffer.slice(start, end), 0-based offsets
Slice(b, start, end) ==
    IF SliceOffset(b, end) <= SliceOffset(b, start) THEN <<>>
    ELSE SubSeq(b, SliceOffset(b, start) + 1, SliceOffset(b, end))

\* buffer[off], 0-based
At(b, off) == b[off + 1]

\* readUInt16BE(off)
ReadUInt16BE(b, off) == At(b, off) * 256 + At(b, off + 1)

\* the least offset of a set of offsets, or -1
FirstOf(hits) == IF hits = {} THEN -1 ELSE Min(hits)

\* Buffer.indexOf(<<0x78, 0x78>>, from): the first offset >= from, or -1.
IndexOfStart(b, from) ==
    FirstOf({i \in from..(Len(b) - 2) : At(b, i) = 120 /\ At(b, i + 1) = 120})

\* ------------------------------------------------------------------- CRC16
\* utils/crc16 (CRC-16/X.25, the GT06 "CRC-ITU"): reflected polynomial
\* 0x8408, initial value 0xFFFF, final complement.

RECURSIVE BitXor(_, _, _)
BitXor(a, b, n) ==
    IF n = 0 THEN 0
    ELSE (((a % 2) + (b % 2)) % 2) + 2 * BitXor(a \div 2, b \div 2, n - 1)

XorNibble == [a \in 0..15 |-> [b \in 0..15 |-> BitXor(a, b, 4)]]

Xor8(a, b) ==
    XorNibble[a \div 16][b \div 16] * 16 + XorNibble[a % 16][b % 16]

Xor16(a, b) == Xor8(a \div 256, b \div 256) * 256 + Xor8(a % 256, b % 256)

RECURSIVE CrcShift(_, _)
CrcShift(crc, k) ==
    IF k = 0 THEN crc
    ELSE CrcShift(IF crc % 2 = 1 THEN Xor16(crc \div 2, 33800) ELSE crc \div 2,
                  k - 1)

CrcTable == [b \in 0..255 |-> CrcShift(b, 8)]

\* one byte into the running checksum
CrcByte(crc, byte) == Xor16(crc \div 256, CrcTable[Xor8(crc % 256, byte)])

\* bytes i.. of b into the running 16-bit checksum, left to right (the test
\* on crc has the checker evaluate it at every byte)
RECURSIVE CrcFold(_, _, _)
CrcFold(crc, b, i) ==
    IF crc \notin 0..65535 \/ i > Len(b) THEN crc
    ELSE CrcFold(CrcByte(crc, b[i]), b, i + 1)

\* a 16-bit value as a 2-byte big-endian Buffer
UInt16BE(v) == <<v \div 256, v % 256>>

\* getCrc16(bytes): the checksum as a 2-byte big-endian Buffer
getCrc16(b) == UInt16BE(65535 - CrcFold(65535, b, 1))

\* validateCrc16(frame): the checksum of the body (after the start marker, up
\* to the CRC field) equals the CRC field, the two bytes before the stop marker.
validateCrc16(buffer) ==
    /\ Len(buffer) >= 6
    /\ getCrc16(Slice(buffer, 2, Len(buffer) - 4))
         = Slice(buffer, Len(buffer) - 4, Len(buffer) - 2)

\* ------------------------------------------------------------ frame splitter

\* A header test that looks at the first byte only; C6 tells it from
\* checkHeader.
checkHeaderFirstByte(data) == Slice(data, 0, 1) = <<120>>

\* checkHeader(data): data.slice(0, 2) equals 78 78
checkHeader(data) == Slice(data, 0, 2) = <<120, 120>>

\* The while loop of sliceMsgsInBuff over the reduced buffer redMsgBuff, given
\* nextStart = redMsgBuff.indexOf(startPattern, 2).
RECURSIVE sliceLoop(_, _)
sliceLoop(redMsgBuff, nextStart) ==
    IF nextStart = -1 THEN <<redMsgBuff>>
    ELSE <<Slice(redMsgBuff, 0, nextStart)>>
           \o sliceLoop(Slice(redMsgBuff, nextStart, Len(redMsgBuff)),
                        IndexOfStart(Slice(redMsgBuff, nextStart, Len(redMsgBuff)), 2))

\* A splitter that forgets to push the bytes before the first cut; C7 tells it
\* from sliceMsgsInBuff.
sliceMsgsInBuffWithoutHead(data) ==
    IF IndexOfStart(data, 2) = -1 THEN <<data>>
    ELSE sliceLoop(Slice(data, IndexOfStart(data, 2), Len(data)),
                   IndexOfStart(Slice(data, IndexOfStart(data, 2), Len(data)), 2))

\* sliceMsgsInBuff(data): the first search and push, then the loop; both cut
\* at the next start marker at offset >= 2.
sliceMsgsInBuff(data) == sliceLoop(data, IndexOfStart(data, 2))

\* ------------------------------------------------------------------- errors

\* What a call throws: the object literals of parse ({error, msg} or
\* {error, event}), the Cursor's Error ("Out of bounds: need n, have m") and
\* the RangeError of a Buffer read past the end.
Thrown(error, msg, event, need, have) ==
    [error |-> error, msg |-> msg, event |-> event, need |-> need, have |-> have]

UnknownHeader(data) == Thrown("Unknown message header", Some(data), None, None, None)
CrcFailed(buffer) == Thrown("CRC checksum validation failed", Some(buffer), None, None, None)
NotImplemented(event) == Thrown("Message type not implemented", None, Some(event), None, None)
UnknownType(event) == Thrown("Unknown message type", None, Some(event), None, None)
OutOfBounds(n, have) == Thrown("Out of bounds", None, None, Some(n), Some(have))
RangeError == Thrown("RangeError", None, None, None, None)

\* ------------------------------------------------------------------- Cursor

Cursor(buffer) == [buf |-> buffer, offset |-> 0]

remaining(c) == Len(c.buf) - c.offset

\* A bounds test that lets an operation take one byte more than remains; C18
\* tells it from ensure.
ensureOneMore(c, n) == remaining(c) + 1 >= n

\* ensure(n) passes
ensure(c, n) == remaining(c) >= n

\* bytes(n): the slice read (the offset moves by n)
bytes(c, n) == Slice(c.buf, c.offset, c.offset + n)

skip(c, n) == [c EXCEPT !.offset = @ + n]

\* A run of reads of the given sizes (u8 = 1, u16 = 2, u32 = 4, bytes(n) = n)
\* on one cursor: the raw bytes of each field, or the first read whose ensure
\* throws, with the n it asked for and the bytes that remained.
RECURSIVE reads(_, _, _)
reads(c, sizes, fields) ==
    IF sizes = <<>> THEN [ok |-> TRUE, fields |-> fields, need |-> 0, have |-> 0]
    ELSE IF ~ensure(c, Head(sizes))
         THEN [ok |-> FALSE, fields |-> fields,
               need |-> Head(sizes), have |-> remaining(c)]
         ELSE reads(skip(c, Head(sizes)), Tail(sizes),
                    Append(fields, bytes(c, Head(sizes))))

\* readUInt8 / readUInt16BE of a field's bytes
U8(f) == f[1]
U16(f) == f[1] * 256 + f[2]

\* ------------------------------------------------------------ terminal info

\* ALARM_MAP[alarmCode] || "unknown"
ALARM_MAP(alarmCode) ==
    CASE alarmCode = 0 -> "normal"
      [] alarmCode = 1 -> "shock"
      [] alarmCode = 2 -> "power_cut"
      [] alarmCode = 3 -> "low_battery"
      [] alarmCode = 4 -> "sos"
      [] OTHER -> "unknown"

\* byte & mask # 0, for a one-bit mask
Bit(byte, mask) == (byte \div mask) % 2 = 1

\* A decoder that takes the alarm code from bits 2-4 of the byte; C25 tells
\* it from decodeTerminalInfo.
decodeTerminalInfoShifted(byte) ==
    LET alarmCode == (byte \div 4) % 8
    IN  [raw |-> byte,
         oilDisconnected |-> Bit(byte, 128),
         gpsTracking |-> Bit(byte, 64),
         alarm |-> ALARM_MAP(alarmCode),
         charging |-> Bit(byte, 4),
         acc |-> Bit(byte, 2),
         activated |-> Bit(byte, 1)]

decodeTerminalInfo(byte) ==
    LET alarmCode == (byte \div 8) % 8     \* (byte & 0x38) >> 3
    IN  [raw |-> byte,
         oilDisconnected |-> Bit(byte, 128),
         gpsTracking |-> Bit(byte, 64),
         alarm |-> ALARM_MAP(alarmCode),
         charging |-> Bit(byte, 4),
         acc |-> Bit(byte, 2),
         activated |-> Bit(byte, 1)]

\* ------------------------------------------------------------------ decoders
\* A decoder returns [thrown |-> None, val |-> the fields it returns] or
\* [thrown |-> Some(error), val |-> the empty object].

EmptyObject == [k \in {} |-> 0]
Returns(val) == [thrown |-> None, val |-> val]
Throws(err) == [thrown |-> Some(err), val |-> EmptyObject]

\* BigInt value * 256 + carry, on little-endian decimal digits
RECURSIVE MulAdd256(_, _)
MulAdd256(digits, carry) ==
    IF digits = <<>>
    THEN IF carry = 0 THEN <<>> ELSE <<carry % 10>> \o MulAdd256(<<>>, carry \div 10)
    ELSE LET t == Head(digits) * 256 + carry
         IN  <<t % 10>> \o MulAdd256(Tail(digits), t \div 10)

RECURSIVE BigIntDigits(_, _, _)
BigIntDigits(b, i, digits) ==
    IF i > Len(b) THEN digits ELSE BigIntDigits(b, i + 1, MulAdd256(digits, b[i]))

\* little-endian digits, most significant first; no digit is "0"
Decimal(le) == IF le = <<>> THEN <<0>> ELSE [i \in 1..Len(le) |-> le[Len(le) + 1 - i]]

\* BigInt("0x" + hex).toString(): the decimal digits of the big-endian value
BigIntToString(b) == Decimal(BigIntDigits(b, 1, <<>>))

\* the result of parseLogin after its read c.bytes(8)
LoginOf(r) ==
    IF ~r.ok THEN Throws(OutOfBounds(r.need, r.have))
    ELSE Returns([imei |-> BigIntToString(r.fields[1])])

parseLogin(data) == LoginOf(reads(Cursor(data), <<8>>, <<>>))

\* Date.UTC(data[0] + 2000, data[1] - 1, data[2], data[3], data[4], data[5])
\* .getTime() is (day * 86400 + sec) * 1000; the pair is kept, the product
\* exceeding the integers of the checker.
parseDatetime(data) ==
    LET monthIndex == data[2] - 1
        ym == data[1] + 2000 + ((monthIndex + 12) \div 12) - 1
        mn == ((monthIndex + 12) % 12) + 1          \* 1..12
        y == IF mn <= 2 THEN ym - 1 ELSE ym
        era == y \div 400
        yoe == y - era * 400
        mp == (mn + 9) % 12
        doy == ((153 * mp + 2) \div 5) + data[3] - 1
        doe == yoe * 365 + (yoe \div 4) - (yoe \div 100) + doy
        days == era * 146097 + doe - 719468
        t == data[4] * 3600 + data[5] * 60 + data[6]
    IN  [day |-> days + (t \div 86400), sec |-> t % 86400]

\* raw / 60.0 / 30000.0 rounded to 6 decimals, for the 32-bit raw value in
\* the 4 bytes: with raw = 9 * q + r it is 5 * q + round(5 * r / 9)
\* microdegrees (no raw value lies on a rounding tie), held as whole degrees
\* and microdegrees.
Gt06Magnitude(raw) ==
    LET c1 == raw[1]
        c2 == (c1 % 9) * 256 + raw[2]
        c3 == (c2 % 9) * 256 + raw[3]
        c4 == (c3 % 9) * 256 + raw[4]
        q == (((c1 \div 9) * 256 + (c2 \div 9)) * 256 + (c3 \div 9)) * 256 + (c4 \div 9)
        r == c4 % 9
    IN  [deg |-> q \div 200000,
         micro |-> 5 * (q % 200000) + ((10 * r + 9) \div 18)]

Negated(v) == [deg |-> 0 - v.deg, micro |-> 0 - v.micro]

\* A latitude whose sign follows bit 0x0400 the way the longitude follows
\* 0x0800, negative when the bit is set; C24 tells it from decodeGt06Lat.
decodeGt06LatLikeLon(lat, course) ==
    IF Bit(course, 1024) THEN Negated(Gt06Magnitude(lat)) ELSE Gt06Magnitude(lat)

decodeGt06Lat(lat, course) ==
    IF ~Bit(course, 1024) THEN Negated(Gt06Magnitude(lat)) ELSE Gt06Magnitude(lat)

decodeGt06Lon(lon, course) ==
    IF Bit(course, 2048) THEN Negated(Gt06Magnitude(lon)) ELSE Gt06Magnitude(lon)

\* the result of parseLocation after its reads bytes(6), u8, u32, u32, u8, u16
LocationOf(r) ==
    LET datetime == r.fields[1]
        satellites == U8(r.fields[2])
        latitude == r.fields[3]
        longitude == r.fields[4]
        speed == U8(r.fields[5])
        course == U16(r.fields[6])
    IN  IF ~r.ok THEN Throws(OutOfBounds(r.need, r.have))
        ELSE Returns([datetime |-> parseDatetime(datetime),
                      latitude |-> decodeGt06Lat(latitude, course),
                      longitude |-> decodeGt06Lon(longitude, course),
                      speed |-> speed,
                      satellites |-> satellites % 16,
                      gpsLength |-> satellites \div 16,
                      gpsFixed |-> Bit(course, 4096),
                      course |-> course % 1024])

parseLocation(buffer) == LocationOf(reads(Cursor(buffer), <<6, 1, 4, 4, 1, 2>>, <<>>))

\* c.u32() & 0xffffff, of the 4 bytes read
Low24(f) == (f[2] * 256 + f[3]) * 256 + f[4]

\* the result of parseLBS after its reads u16, u8, u16, u32
LBSOf(r) ==
    IF ~r.ok THEN Throws(OutOfBounds(r.need, r.have))
    ELSE Returns([mcc |-> U16(r.fields[1]),
                  mnc |-> U8(r.fields[2]),
                  lac |-> U16(r.fields[3]),
                  cellId |-> Low24(r.fields[4])])

parseLBS(buffer) == LBSOf(reads(Cursor(buffer), <<2, 1, 2, 4>>, <<>>))

\* ---------------------------------------------------------------- readLbs
\* utils/readLbs: the LBS block behind a length byte, read when the length
\* byte is 0 and data is present all the same (allowOem), or when it is > 0;
\* null otherwise.  The parser imports it and does not call it.

Null == [null |-> TRUE]

\* readLbs after lbsLength = cursor.u8()
readLbsAfterLength(c, lbsLength, allowOem, minBytes) ==
    IF allowOem /\ lbsLength = 0 /\ remaining(c) - 6 >= minBytes
    THEN LBSOf(reads(c, <<2, 1, 2, 4>>, <<>>))
    ELSE IF lbsLength > 0 /\ remaining(c) >= lbsLength
    THEN LBSOf(reads(c, <<2, 1, 2, 4>>, <<>>))
    ELSE Returns(Null)

\* readLbs(c, options), allowOem = options.allowOem !== false and
\* minBytes = options.minBytes || 8
readLbs(c, allowOem, minBytes) ==
    IF remaining(c) < 1 THEN Returns(Null)
    ELSE readLbsAfterLength(skip(c, 1), U8(bytes(c, 1)),
                            allowOem, minBytes)

\* The cursor after a run of reads: each read whose ensure passes moves the
\* offset by its size, the first whose ensure throws leaves it and ends the run.
RECURSIVE readsEnd(_, _)
readsEnd(c, sizes) ==
    IF sizes = <<>> \/ ~ensure(c, Head(sizes)) THEN c
    ELSE readsEnd(skip(c, Head(sizes)), Tail(sizes))

\* the cursor after readLbs, given the cursor after lbsLength = cursor.u8()
readLbsAfterLengthEnd(c, lbsLength, allowOem, minBytes) ==
    IF allowOem /\ lbsLength = 0 /\ remaining(c) - 6 >= minBytes
    THEN readsEnd(c, <<2, 1, 2, 4>>)
    ELSE IF lbsLength > 0 /\ remaining(c) >= lbsLength
    THEN readsEnd(c, <<2, 1, 2, 4>>)
    ELSE c

\* the cursor after readLbs(c, options)
readLbsEnd(c, allowOem, minBytes) ==
    IF remaining(c) < 1 THEN c
    ELSE readLbsAfterLengthEnd(skip(c, 1), U8(bytes(c, 1)), allowOem, minBytes)

\* the result of parseStatus after its reads u8, u8, u8, u16
StatusOf(r) ==
    IF ~r.ok THEN Throws(OutOfBounds(r.need, r.have))
    ELSE Returns([terminal |-> decodeTerminalInfo(U8(r.fields[1])),
                  voltage |-> U8(r.fields[2]),
                  signal |-> U8(r.fields[3]),
                  alarmLanguage |-> U16(r.fields[4])])

parseStatus(buffer) == StatusOf(reads(Cursor(buffer), <<1, 1, 1, 2>>, <<>>))

\* parseAlarm once the location block is decoded and lbs_length read: the LBS
\* block when lbs_length > 0, the status block after it, and the object made
AlarmOf(location, lbs_length, lbs, status) ==
    IF location.thrown # None THEN location
    ELSE IF lbs_length > 0 /\ lbs.thrown # None THEN lbs
    ELSE IF status.thrown # None THEN status
    ELSE IF lbs_length > 0
         THEN Returns([location |-> location.val, lbs |-> lbs.val,
                       status |-> status.val])
         ELSE Returns([location |-> location.val, status |-> status.val])

\* parseAlarm after buffer = buffer.slice(18), with lbs_length = buffer[0]
AlarmRest(location, rest, lbs_length) ==
    AlarmOf(location, lbs_length,
            parseLBS(Slice(rest, 1, 1 + lbs_length)),
            parseStatus(Slice(rest, 1 + lbs_length, Len(rest))))

\* buffer[0]; of an empty buffer it is undefined, and undefined > 0 is false
LbsLength(rest) == IF Len(rest) = 0 THEN 0 ELSE At(rest, 0)

parseAlarm(buffer) ==
    AlarmRest(parseLocation(Slice(buffer, 0, 18)),
              Slice(buffer, 18, Len(buffer)),
              LbsLength(Slice(buffer, 18, Len(buffer))))

\* ---------------------------------------------------------- response builder

\* data.writeUInt16BE(value, offset), value as its 2 bytes
WriteUInt16BE(data, value, offset) ==
    [i \in 1..Len(data) |->
        IF i = offset + 1 THEN value[1]
        ELSE IF i = offset + 2 THEN value[2] ELSE data[i]]

\* data.writeUInt16BE(getCrc16(data.slice(2, 6)).readUInt16BE(0), data.length - 4)
appendCrc16(data) == WriteUInt16BE(data, getCrc16(Slice(data, 2, 6)), Len(data) - 4)

\* A response builder that keeps the template's CRC field instead of writing
\* the CRC of the new bytes; C11 tells it from createResponse.
createResponseTemplateCrc(data) ==
    <<120, 120, 5, At(data, 3), 0, 1, 217, 220, 13, 10>>

\* the template 78 78 05 FF 00 01 d9 dc 0d 0a with byte 3 = data[3]
createResponse(data) ==
    appendCrc16(<<120, 120, 5, At(data, 3), 0, 1, 217, 220, 13, 10>>)

\* -------------------------------------------------------------- input chunks
\* The wire format: 78 78, length, type, payload, serial (2), CRC16 over
\* [2, 6+N) (2), 0D 0A.  The length byte counts type, payload, serial and CRC.

Framed(body) == <<120, 120>> \o body \o getCrc16(body) \o <<13, 10>>

Frame(type, payload, serial) ==
    Framed(<<Len(payload) + 5, type>> \o payload \o serial)

\* a frame whose CRC field is off by one
Corrupt(frame) == [frame EXCEPT ![Len(frame) - 2] = (@ + 1) % 256]

\* datetime, satellites, latitude, longitude, speed, course: 18 bytes
LocationBlock == <<11, 10, 31, 14, 42, 44, 201, 2, 107, 63, 62,
                   12, 34, 173, 101, 0, 21, 76>>
\* MCC, MNC, LAC, cell id: 8 bytes
LbsBlock == <<1, 204, 0, 40, 125, 0, 31, 184>>
\* terminal info, voltage, signal, alarm/language: 5 bytes
StatusBlock == <<70, 6, 4, 0, 2>>

\* the login of the test suite: IMEI bytes 01 23 45 67 89 01 23 45, serial 67 89
LoginFrame == Frame(1, <<1, 35, 69, 103, 137, 1, 35, 69>>, <<103, 137>>)
LocationFrame == Frame(18, LocationBlock \o LbsBlock, <<0, 3>>)
StatusFrame == Frame(19, StatusBlock, <<0, 5>>)
AlarmFrame == Frame(22, LocationBlock \o <<0>> \o StatusBlock, <<0, 7>>)
\* a login whose IMEI bytes begin 78 78
MarkerLoginFrame == Frame(1, <<120, 120, 69, 103, 137, 1, 35, 69>>, <<0, 1>>)
BadCrcFrame == Corrupt(StatusFrame)
StringInfoFrame == Frame(21, <<>>, <<0, 6>>)
QueryAddressFrame == Frame(26, <<>>, <<0, 8>>)
CommandInfoFrame == Frame(128, <<>>, <<0, 10>>)
UnknownTypeFrame == Frame(153, <<>>, <<0, 9>>)
\* a location frame with no LBS bytes before the serial number
BareLocationFrame == Frame(18, LocationBlock, <<0, 4>>)

\* status frames whose payload is 4 and 2 bytes, not the 5 of a status block
ShortStatusFrame == Frame(19, <<70, 6, 4, 0>>, <<0, 5>>)
TruncatedStatusFrame == Frame(19, <<70, 6>>, <<0, 5>>)
\* an LBS block announced with a length byte 0 and present all the same
OemLocationFrame == Frame(18, LocationBlock \o <<0>> \o LbsBlock, <<0, 3>>)
OemAlarmFrame ==
    Frame(22, LocationBlock \o <<0>> \o LbsBlock \o StatusBlock, <<0, 7>>)
\* a location whose raw latitude and longitude are ff ff ff ff
FarLocationFrame ==
    Frame(18, <<11, 10, 31, 14, 42, 44, 201, 255, 255, 255, 255,
                255, 255, 255, 255, 0, 21, 76>> \o LbsBlock, <<0, 3>>)

DecodableFrames == {LoginFrame, LocationFrame, StatusFrame, AlarmFrame}
OddFrames == {ShortStatusFrame, TruncatedStatusFrame, OemLocationFrame,
              OemAlarmFrame, FarLocationFrame}
FailingFrames == {BadCrcFrame, StringInfoFrame, QueryAddressFrame,
                  CommandInfoFrame, UnknownTypeFrame, BareLocationFrame}
ValidFrames == DecodableFrames \cup {MarkerLoginFrame}

Chunks ==
    \* one frame
    DecodableFrames \cup FailingFrames \cup {MarkerLoginFrame} \cup OddFrames
    \* two frames
    \cup {a \o b : a \in {LoginFrame, LocationFrame, StatusFrame},
                   b \in {LoginFrame, LocationFrame, StatusFrame, BadCrcFrame,
                          UnknownTypeFrame, BareLocationFrame}}
    \cup {AlarmFrame \o LocationFrame, MarkerLoginFrame \o StatusFrame}
    \* three frames
    \cup {LoginFrame \o StatusFrame \o LocationFrame,
          StatusFrame \o LocationFrame \o LoginFrame,
          LoginFrame \o UnknownTypeFrame \o StatusFrame,
          StatusFrame \o LoginFrame \o BadCrcFrame,
          LoginFrame \o StatusFrame \o CommandInfoFrame,
          LocationFrame \o BareLocationFrame \o LoginFrame}
    \* no start marker at offset 0
    \cup {<<>>, <<120>>, <<18, 52, 86, 120, 144>>, <<120, 121>> \o StatusFrame,
          <<0>> \o LoginFrame}

\* ------------------------------------------------------------------ session

Fields == {"parseTime", "event", "payload", "expectsResponse", "serialNumber",
           "responseMsg"}

\* const parsed = {}
NewObject == [k \in Fields |-> None]

\* Object.assign(target, source): every property source has
Assign(target, source) ==
    [k \in Fields |-> IF source[k] # None THEN source[k] ELSE target[k]]

\* The switch on parsed.event: the expectsResponse it assigns (None when the
\* branch assigns none), the fields Object.assign put on parsed.payload before
\* the branch ended, and what the branch threw.
Switched(expectsResponse, payload, thrown) ==
    [expectsResponse |-> expectsResponse, payload |-> payload, thrown |-> thrown]

\* a branch that assigns expectsResponse, then the fields one decoder returns
Branch(expectsResponse, r) == Switched(Some(expectsResponse), r.val, r.thrown)

\* A location case that asks for a response; C19 tells it from LocationBranch.
LocationBranchResponding(loc, lbs) ==
    IF loc.thrown # None THEN Switched(Some(TRUE), EmptyObject, loc.thrown)
    ELSE IF lbs.thrown # None THEN Switched(Some(TRUE), loc.val, lbs.thrown)
    ELSE Switched(Some(TRUE), lbs.val @@ loc.val, None)

\* case 0x12: the fields of parseLocation, then those of parseLBS
LocationBranch(loc, lbs) ==
    IF loc.thrown # None THEN Switched(Some(FALSE), EmptyObject, loc.thrown)
    ELSE IF lbs.thrown # None THEN Switched(Some(FALSE), loc.val, lbs.thrown)
    ELSE Switched(Some(FALSE), lbs.val @@ loc.val, None)

\* A switch without the cases 0x15, 0x1a and 0x80, which then fall to the
\* default; C10 tells it from protocolSwitch.
protocolSwitchWithoutReserved(event, content) ==
    CASE event = 1 -> Branch(TRUE, parseLogin(content))
      [] event = 18 -> LocationBranch(parseLocation(content),
                                      parseLBS(Slice(content, 18, Len(content))))
      [] event = 19 -> Branch(TRUE, parseStatus(content))
      [] event = 22 -> Branch(TRUE, parseAlarm(content))
      [] OTHER ->
           Switched(None, EmptyObject, Some(UnknownType(event)))

protocolSwitch(event, content) ==
    CASE event = 1 -> Branch(TRUE, parseLogin(content))
      [] event = 18 -> LocationBranch(parseLocation(content),
                                      parseLBS(Slice(content, 18, Len(content))))
      [] event = 19 -> Branch(TRUE, parseStatus(content))
      [] event = 22 -> Branch(TRUE, parseAlarm(content))
      [] event \in {21, 26, 128} ->
           Switched(None, EmptyObject, Some(NotImplemented(event)))
      [] OTHER ->
           Switched(None, EmptyObject, Some(UnknownType(event)))

\* parsed.serialNumber = data.readUInt16BE(12)
serialNumber(data, buffer) == ReadUInt16BE(data, 12)

\* if (parsed.expectsResponse) parsed.responseMsg = createResponse(buffer)
attachResponse(parsed, buffer) ==
    IF parsed.expectsResponse = Some(TRUE)
    THEN [parsed EXCEPT !.responseMsg = Some(createResponse(buffer))]
    ELSE parsed

\* The state a forEach callback works on: the one `parsed` object of the call,
\* the session's projected fields, msgBuffer, and what was thrown at which
\* frame (idx counts frames from 1).
LoopState(parsed, this, buf, thrown, idx) ==
    [parsed |-> parsed, self |-> this, msgBuffer |-> buf, thrown |-> thrown,
     idx |-> idx]

\* parsed after parseTime, event, payload = {} and the switch sw
afterSwitch(parsed, time, buffer, sw) ==
    [parsed EXCEPT !.parseTime = Some(time),
                   !.event = Some(At(buffer, 3)),
                   !.payload = Some(sw.payload),
                   !.expectsResponse =
                       IF sw.expectsResponse = None THEN @ ELSE sw.expectsResponse]

\* A callback end that projects every decoded frame on the session, not only
\* the last of the chunk; C20 tells it from pushParsed.
pushParsedProjecting(st, parsed, idx, n, addr) ==
    LoopState(parsed, Assign(st.self, parsed),
              Append(st.msgBuffer, addr), None, idx)

\* the end of the callback: project on the session at the last frame, push
pushParsed(st, parsed, idx, n, addr) ==
    LoopState(parsed,
              IF idx = n THEN Assign(st.self, parsed) ELSE st.self,
              Append(st.msgBuffer, addr), None, idx)

\* the callback from the switch on: its throw, the serial number, the response
afterCrc(st, buffer, idx, n, data, time, addr, sw) ==
    IF sw.thrown # None
    THEN LoopState(afterSwitch(st.parsed, time, buffer, sw), st.self,
                   st.msgBuffer, sw.thrown, idx)
    ELSE IF Len(data) < 14
    THEN LoopState(afterSwitch(st.parsed, time, buffer, sw), st.self,
                   st.msgBuffer, Some(RangeError), idx)
    ELSE pushParsed(st,
                    attachResponse(
                        [afterSwitch(st.parsed, time, buffer, sw)
                            EXCEPT !.serialNumber = Some(serialNumber(data, buffer))],
                        buffer),
                    idx, n, addr)

\* A callback that runs the switch on the type byte before it verifies the
\* CRC; C21 tells it from callback.
callbackDispatchFirst(st, buffer, idx, n, data, time, addr) ==
    IF validateCrc16(buffer)
           \/ protocolSwitch(At(buffer, 3),
                             Slice(buffer, 4, Len(buffer) - 4)).thrown # None
    THEN afterCrc(st, buffer, idx, n, data, time, addr,
                  protocolSwitch(At(buffer, 3), Slice(buffer, 4, Len(buffer) - 4)))
    ELSE LoopState(afterSwitch(st.parsed, time, buffer,
                               protocolSwitch(At(buffer, 3),
                                              Slice(buffer, 4, Len(buffer) - 4))),
                   st.self, st.msgBuffer, Some(CrcFailed(buffer)), idx)

\* One call of the forEach callback, on frame idx of n.
callback(st, buffer, idx, n, data, time, addr) ==
    IF ~validateCrc16(buffer)
    THEN LoopState([st.parsed EXCEPT !.parseTime = Some(time)], st.self,
                   st.msgBuffer, Some(CrcFailed(buffer)), idx)
    ELSE afterCrc(st, buffer, idx, n, data, time, addr,
                  protocolSwitch(At(buffer, 3), Slice(buffer, 4, Len(buffer) - 4)))

\* A loop that catches what the callback throws and goes on with the next
\* frame; C9 tells it from forEach.
RECURSIVE forEachPastThrow(_, _, _, _, _, _)
forEachPastThrow(next, frames, idx, data, time, addr) ==
    IF idx > Len(frames) THEN next
    ELSE forEachPastThrow(
             callback(next, frames[idx], idx, Len(frames), data, time, addr),
             frames, idx + 1, data, time, addr)

\* this.msgBufferRaw.forEach(callback), from frame idx on: a throw leaves the
\* loop; next is the state after the callback on frame idx - 1
RECURSIVE forEach(_, _, _, _, _, _)
forEach(next, frames, idx, data, time, addr) ==
    IF next.thrown # None \/ idx > Len(frames) THEN next
    ELSE forEach(callback(next, frames[idx], idx, Len(frames), data, time, addr),
                 frames, idx + 1, data, time, addr)

\* The heap after a call: the call's `parsed` object is kept when msgBuffer
\* refers to it.
Allocated(h, addr, parsed, buf) ==
    IF \E i \in 1..Len(buf) : buf[i] = addr THEN Append(h, parsed) ELSE h

\* the records of msgBuffer, by value
Records == [i \in 1..Len(msgBuffer) |-> heap[msgBuffer[i]]]

Call(op, data, thrown, idx, base) ==
    [op |-> op, data |-> data, thrown |-> thrown, idx |-> idx, base |-> base]

Init ==
    /\ msgBufferRaw = <<>>
    /\ msgBuffer = <<>>
    /\ heap = <<>>
    /\ self = NewObject
    /\ now = 0
    /\ lastCall = Call("new", <<>>, None, 0, 0)
    /\ cursor = Cursor(<<>>)

\* parse(data) on a chunk without the start marker: throws before the loop
ParseUnknownHeader(data) ==
    /\ now < MaxCalls
    /\ ~checkHeader(data)
    /\ now' = now + 1
    /\ msgBufferRaw' = <<>>
    /\ lastCall' = Call("parse", data, Some(UnknownHeader(data)), 0, Len(msgBuffer))
    /\ UNCHANGED <<msgBuffer, heap, self, cursor>>

\* the session when parse returns or throws out of the loop
Returned(data, frames, addr, end) ==
    /\ now' = now + 1
    /\ msgBufferRaw' = frames
    /\ msgBuffer' = end.msgBuffer
    /\ heap' = Allocated(heap, addr, end.parsed, end.msgBuffer)
    /\ self' = end.self
    /\ lastCall' = Call("parse", data, end.thrown, end.idx, Len(msgBuffer))
    /\ UNCHANGED cursor

\* this.msgBufferRaw = sliceMsgsInBuff(data).slice(), then the loop
Looped(data, frames) ==
    Returned(data, frames, Len(heap) + 1,
             forEach(LoopState(NewObject, self, msgBuffer, None, 0),
                     frames, 1, data, now + 1, Len(heap) + 1))

\* A parse that splits and decodes without the test of the start marker; C22
\* tells it from parse.
ParseFramesUnchecked(data) ==
    /\ now < MaxCalls
    /\ Looped(data, sliceMsgsInBuff(data))

\* parse(data) on a chunk with the start marker: split, then decode each frame
ParseFrames(data) ==
    /\ now < MaxCalls
    /\ checkHeader(data)
    /\ Looped(data, sliceMsgsInBuff(data))

Parse == \E data \in Chunks : ParseUnknownHeader(data) \/ ParseFrames(data)

\* A clear that resets the whole session, the projected fields and
\* msgBufferRaw included; C17 tells it from clearMsgBuffer.
ClearSession ==
    /\ msgBuffer' = <<>>
    /\ heap' = <<>>
    /\ msgBufferRaw' = <<>>
    /\ self' = NewObject
    /\ lastCall' = Call("clear", <<>>, None, 0, Len(msgBuffer))
    /\ UNCHANGED <<now, cursor>>

\* clearMsgBuffer(): this.msgBuffer.length = 0; the records become unreachable
ClearMsgBuffer ==
    /\ msgBuffer' = <<>>
    /\ heap' = <<>>
    /\ lastCall' = Call("clear", <<>>, None, 0, Len(msgBuffer))
    /\ UNCHANGED <<msgBufferRaw, self, now, cursor>>

Next == Parse \/ ClearMsgBuffer

Spec == Init /\ [][Next]_vars

\* ------------------------------------------------------------ frame splitter
\* sliceMsgsInBuff on its own, over every chunk of a small alphabet: the byte
\* of the start marker, the first byte of the stop marker, one other byte.

MaxChunkLen == 7

SplitBytes == {120, 13, 1}

SplitInputs == UNION {[1..n -> SplitBytes] : n \in 0..MaxChunkLen}

SplitInit == Init

Split ==
    \E data \in SplitInputs :
        /\ lastCall.op = "new"
        /\ msgBufferRaw' = sliceMsgsInBuff(data)
        /\ lastCall' = Call("slice", data, None, 0, 0)
        /\ UNCHANGED <<msgBuffer, heap, self, now, cursor>>

SplitNext == Split

SplitSpec == SplitInit /\ [][SplitNext]_vars

\* --------------------------------------------------------- response builder
\* createResponse on its own, over frames of every type byte.

ResponseInputs ==
    {Frame(t, payload, serial) :
        t \in 0..255, payload \in {<<>>, StatusBlock},
        serial \in {<<0, 1>>, <<103, 137>>}}

ResponseInit == Init

Respond ==
    \E data \in ResponseInputs :
        /\ lastCall.op = "new"
        /\ msgBufferRaw' = <<createResponse(data)>>
        /\ lastCall' = Call("createResponse", data, None, 0, 0)
        /\ UNCHANGED <<msgBuffer, heap, self, now, cursor>>

ResponseNext == Respond

ResponseSpec == ResponseInit /\ [][ResponseNext]_vars

\* ------------------------------------------------------------------ Cursor
\* A Cursor on its own: any sequence of u8, u16, u32, bytes(n) and skip(n) on
\* buffers of every length up to MaxBufferLen.

MaxBufferLen == 6
MaxRead == 5

CursorBuffers == {SubSeq(LocationBlock, 1, L) : L \in 0..MaxBufferLen}

\* new Cursor(buffer)
CursorInit ==
    /\ msgBufferRaw = <<>>
    /\ msgBuffer = <<>>
    /\ heap = <<>>
    /\ self = NewObject
    /\ now = 0
    /\ lastCall = Call("new", <<>>, None, 0, 0)
    /\ cursor \in {Cursor(buffer) : buffer \in CursorBuffers}

\* One operation asking for n bytes: ensure(n) throws and nothing moves, or
\* the offset moves by n.  lastCall keeps the bytes the operation read (none
\* for skip), what it threw, n and the offset it started from.
CursorOp(op, n, returns) ==
    /\ IF ensure(cursor, n)
       THEN /\ cursor' = skip(cursor, n)
            /\ lastCall' = Call(op, IF returns THEN bytes(cursor, n) ELSE <<>>,
                                None, n, cursor.offset)
       ELSE /\ cursor' = cursor
            /\ lastCall' = Call(op, <<>>,
                                Some(OutOfBounds(n, remaining(cursor))),
                                n, cursor.offset)
    /\ UNCHANGED <<msgBufferRaw, msgBuffer, heap, self, now>>

CursorU8 == CursorOp("u8", 1, TRUE)
CursorU16 == CursorOp("u16", 2, TRUE)
CursorU32 == CursorOp("u32", 4, TRUE)
CursorBytes == \E n \in 0..MaxRead : CursorOp("bytes", n, TRUE)
CursorSkip == \E n \in 0..MaxRead : CursorOp("skip", n, FALSE)

CursorNext == CursorU8 \/ CursorU16 \/ CursorU32 \/ CursorBytes \/ CursorSkip

CursorSpec == CursorInit /\ [][CursorNext]_vars

\* ------------------------------------------------------------- CRC and type
\* One parse call on frames of every type byte, with the CRC field right and
\* off by one, alone and behind a frame that decodes.

TypedFrames ==
    {Frame(t, payload, <<0, 11>>) : t \in 0..255, payload \in {<<>>, StatusBlock}}

TypedChunks ==
    TypedFrames
    \cup {Corrupt(f) : f \in TypedFrames}
    \cup {LocationFrame \o Corrupt(f) : f \in TypedFrames}

TypedInit == Init

ParseTyped ==
    \E data \in TypedChunks :
        /\ lastCall.op = "new"
        /\ ParseFrames(data)

TypedNext == ParseTyped

TypedSpec == TypedInit /\ [][TypedNext]_vars

\* ------------------------------------------------------- parse of any chunk
\* One parse call on every chunk of up to MaxChunkLen bytes over SplitBytes
\* and on the chunks of whole frames.

AnyChunks == SplitInputs \cup Chunks

AnyInit == Init

ParseAny ==
    \E data \in AnyChunks :
        /\ lastCall.op = "new"
        /\ (ParseUnknownHeader(data) \/ ParseFrames(data))

AnyNext == ParseAny

AnySpec == AnyInit /\ [][AnyNext]_vars

\* ----------------------------------------------------------- readLbs alone
\* One readLbs call on a cursor at offset 0 or behind one byte, over a length
\* byte 0..MaxLbsLength followed by 0..MaxLbsBytes bytes.

MaxLbsLength == 10
MaxLbsBytes == 14

\* the bytes behind the length byte in an alarm frame: LBS, status, serial,
\* CRC, stop marker, and two more
LbsStream == LbsBlock \o StatusBlock \o <<0, 7, 222, 110, 13, 10, 120, 120>>

LbsBuffers ==
    {<<>>} \cup {<<lbsLength>> \o SubSeq(LbsStream, 1, k) :
                    lbsLength \in 0..MaxLbsLength, k \in 0..MaxLbsBytes}

\* new Cursor(buffer), or one u8() later
LbsInit ==
    /\ msgBufferRaw = <<>>
    /\ msgBuffer = <<>>
    /\ heap = <<>>
    /\ self = NewObject
    /\ now = 0
    /\ lastCall = Call("new", <<>>, None, 0, 0)
    /\ cursor \in {Cursor(buffer) : buffer \in LbsBuffers}
                    \cup {skip(Cursor(<<76>> \o buffer), 1) : buffer \in LbsBuffers}

\* readLbs(cursor, {allowOem}): lastCall keeps the value returned, what was
\* thrown and the offset the call started from
ReadLbs ==
    \E allowOem \in BOOLEAN :
        /\ lastCall.op = "new"
        /\ cursor' = readLbsEnd(cursor, allowOem, 8)
        /\ lastCall' = Call("readLbs", readLbs(cursor, allowOem, 8).val,
                            readLbs(cursor, allowOem, 8).thrown, 0, cursor.offset)
        /\ UNCHANGED <<msgBufferRaw, msgBuffer, heap, self, now>>

LbsNext == ReadLbs

LbsSpec == LbsInit /\ [][LbsNext]_vars

\* ------------------------------------------------------ coordinates alone
\* decodeGt06Lat and decodeGt06Lon on their own, over raw values from 0 to
\* 0xffffffff and course fields with every pattern of the six high bits.

RawCoordinates ==
    {<<a, b, c, d>> : a \in {0, 2, 255}, b \in {0, 107}, c \in {0, 63},
                      d \in {0, 1, 62, 255}}

CourseFields == {high * 1024 + low : high \in 0..63, low \in {0, 332, 1023}}

CoordinateInit == Init

\* decodeGt06Lat(raw, course) and decodeGt06Lon(raw, course): lastCall keeps
\* the arguments, msgBufferRaw the two values returned
DecodeCoordinates ==
    \E raw \in RawCoordinates, course \in CourseFields :
        /\ lastCall.op = "new"
        /\ msgBufferRaw' = <<decodeGt06Lat(raw, course), decodeGt06Lon(raw, course)>>
        /\ lastCall' = Call("decodeGt06", raw, None, course, 0)
        /\ UNCHANGED <<msgBuffer, heap, self, now, cursor>>

CoordinateNext == DecodeCoordinates

CoordinateSpec == CoordinateInit /\ [][CoordinateNext]_vars

\* ---------------------------------------------------- terminal info alone
\* decodeTerminalInfo on its own, over every value of the status byte.

StatusBytes == 0..255

TerminalInit == Init

\* decodeTerminalInfo(byte): lastCall keeps the byte, msgBufferRaw the object
\* returned
DecodeTerminal ==
    \E byte \in StatusBytes :
        /\ lastCall.op = "new"
        /\ msgBufferRaw' = <<decodeTerminalInfo(byte)>>
        /\ lastCall' = Call("decodeTerminalInfo", <<byte>>, None, 0, 0)
        /\ UNCHANGED <<msgBuffer, heap, self, now, cursor>>

TerminalNext == DecodeTerminal

TerminalSpec == TerminalInit /\ [][TerminalNext]_vars

\* ------------------------------------------------------------------- claims

\* the latest call was parse, on a chunk with the start marker
ParsedFrames ==
    /\ lastCall.op = "parse"
    /\ Len(lastCall.data) >= 2
    /\ lastCall.data[1] = 120
    /\ lastCall.data[2] = 120

\* the latest call was a parse that returned
Succeeded == lastCall.op = "parse" /\ lastCall.thrown = None

\* the record the latest call pushed for its frame i
Pushed(i) == Records[lastCall.base + i]

\* the type byte and the payload bytes (with the serial number) of a frame
TypeOf(frame) == At(frame, 3)
ContentOf(frame) == Slice(frame, 4, Len(frame) - 4)

\* the serial number field of a frame: the two bytes before its CRC field
SerialOf(frame) == At(frame, Len(frame) - 6) * 256 + At(frame, Len(frame) - 5)

\* the payload decoded from a frame taken alone
PayloadOf(frame) == protocolSwitch(TypeOf(frame), ContentOf(frame)).payload

\* C1: after a parse that returns, msgBuffer holds the records of the chunk
\* of that call, one per candidate frame, and no record left over from an
\* earlier call.
C1_MsgBufferOfLatestCall ==
    Succeeded => Len(msgBuffer) = Len(msgBufferRaw)

\* C2: after a parse of k >= 2 frames that returns, the i-th record the call
\* pushed carries the type byte and the payload decoded from the i-th frame.
C2_RecordPerFrame ==
    (Succeeded /\ Len(msgBufferRaw) >= 2) =>
        \A i \in 1..Len(msgBufferRaw) :
            /\ Pushed(i).event = Some(TypeOf(msgBufferRaw[i]))
            /\ Pushed(i).payload = Some(PayloadOf(msgBufferRaw[i]))

\* C3: the serialNumber of a decoded frame is the big-endian value of the two
\* bytes before that frame's CRC field; here for the frame decoded last in a
\* parse that returns, on its record and on the session.
C3_SerialOfOwnFrame ==
    Succeeded =>
        /\ Records[Len(msgBuffer)].serialNumber
             = Some(SerialOf(msgBufferRaw[Len(msgBufferRaw)]))
        /\ self.serialNumber = Some(SerialOf(msgBufferRaw[Len(msgBufferRaw)]))

\* responseMsg is present on an object exactly when its expectsResponse is true
ResponseIffExpected(obj) ==
    (obj.responseMsg # None) <=> (obj.expectsResponse = Some(TRUE))

\* C4: after any sequence of parse calls, responseMsg is present exactly when
\* expectsResponse is true, on every record of msgBuffer and on the session.
C4_ResponseIffExpected ==
    /\ \A i \in 1..Len(msgBuffer) : ResponseIffExpected(Records[i])
    /\ ResponseIffExpected(self)

\* C5: when parse throws on frame j, the records pushed for frames 1..j-1 are
\* in msgBuffer and carry the type byte and payload decoded from their frames.
C5_EarlierRecordsKept ==
    (lastCall.op = "parse" /\ lastCall.thrown # None /\ lastCall.idx >= 2) =>
        /\ Len(msgBuffer) >= lastCall.base + lastCall.idx - 1
        /\ \A i \in 1..(lastCall.idx - 1) :
               /\ Pushed(i).event = Some(TypeOf(msgBufferRaw[i]))
               /\ Pushed(i).payload = Some(PayloadOf(msgBufferRaw[i]))

\* the chunk begins with the start marker 0x78 0x78
StartsWithMarker(data) == Len(data) >= 2 /\ data[1] = 120 /\ data[2] = 120

\* C6: a parse of a chunk whose first two bytes are not 0x78 0x78 throws
\* 'Unknown message header' with the chunk, pushes no record and runs no
\* decoder: msgBuffer, its records and the session's fields stay as they were.
C6_UnknownHeaderRejected ==
    [][(lastCall'.op = "parse" /\ now' # now
            /\ ~StartsWithMarker(lastCall'.data)) =>
          /\ lastCall'.thrown # None
          /\ lastCall'.thrown[1].error = "Unknown message header"
          /\ lastCall'.thrown[1].msg = Some(lastCall'.data)
          /\ lastCall'.idx = 0
          /\ msgBuffer' = msgBuffer
          /\ heap' = heap
          /\ self' = self]_vars

\* a chunk without the start marker was rejected while records were buffered
C6_Witness ==
    /\ lastCall.op = "parse"
    /\ ~StartsWithMarker(lastCall.data)
    /\ Len(lastCall.data) > 2
    /\ lastCall.thrown # None
    /\ Len(msgBuffer) > 0

\* the segments of a split, joined in order
RECURSIVE Joined(_, _)
Joined(segments, i) ==
    IF i > Len(segments) THEN <<>>
    ELSE segments[i] \o Joined(segments, i + 1)

\* the offsets >= 2 of a chunk at which the start marker occurs
MarkersFrom2(data) ==
    {k \in 2..(Len(data) - 2) : data[k + 1] = 120 /\ data[k + 2] = 120}

\* C7: the segments sliceMsgsInBuff returns, joined in order, are the chunk,
\* byte for byte; a chunk with no start marker at offset >= 2 comes back as
\* the single segment that is the whole chunk.
C7_SegmentsPartitionChunk ==
    (lastCall.op = "slice") =>
        /\ Joined(msgBufferRaw, 1) = lastCall.data
        /\ (MarkersFrom2(lastCall.data) = {}) => (msgBufferRaw = <<lastCall.data>>)

\* a chunk with two start markers past offset 2 was split in three
C7_Witness ==
    /\ lastCall.op = "slice"
    /\ Cardinality(MarkersFrom2(lastCall.data)) >= 2
    /\ Len(msgBufferRaw) = 3
    /\ Len(msgBufferRaw[1]) > 2

\* C8: a chunk that is two valid frames F1 and F2, one after the other, is
\* split into exactly the two candidate frames F1 and F2.
C8_TwoFramesSplitInTwo ==
    \A f1 \in ValidFrames, f2 \in ValidFrames :
        (lastCall.op = "parse" /\ lastCall.data = f1 \o f2) =>
            msgBufferRaw = <<f1, f2>>

\* the error a frame taken alone fails with, None when it decodes
FailureOf(frame, data) ==
    IF ~validateCrc16(frame) THEN Some(CrcFailed(frame))
    ELSE IF protocolSwitch(TypeOf(frame), ContentOf(frame)).thrown # None
    THEN protocolSwitch(TypeOf(frame), ContentOf(frame)).thrown
    ELSE IF Len(data) < 14 THEN Some(RangeError)
    ELSE None

\* the frames of the chunk of the latest call that fail taken alone
FailingIndexes ==
    {i \in 1..Len(msgBufferRaw) : FailureOf(msgBufferRaw[i], lastCall.data) # None}

\* C9: when frame j is the first of a chunk to fail, parse throws that frame's
\* error at frame j: msgBuffer gains the j-1 records of the frames before it
\* and no record for frame j or any later frame.
C9_StopsAtFirstFailure ==
    (ParsedFrames /\ FailingIndexes # {}) =>
        /\ lastCall.thrown = FailureOf(msgBufferRaw[Min(FailingIndexes)], lastCall.data)
        /\ lastCall.idx = Min(FailingIndexes)
        /\ Len(msgBuffer) = lastCall.base + Min(FailingIndexes) - 1

\* a chunk of three frames failed at its second, after an earlier call
C9_Witness ==
    /\ ParsedFrames
    /\ Len(msgBufferRaw) = 3
    /\ FailingIndexes # {}
    /\ Min(FailingIndexes) = 2
    /\ FailureOf(msgBufferRaw[3], lastCall.data) = None
    /\ lastCall.base > 0
    /\ Len(msgBuffer) = lastCall.base + 1

\* the type bytes the protocol switch has a case for
DecodedTypes == {1, 18, 19, 22}
ReservedTypes == {21, 26, 128}

\* C10: a frame with a valid CRC and type 0x15, 0x1A or 0x80 makes parse throw
\* 'Message type not implemented', one with any other type outside 0x01,
\* 0x12, 0x13, 0x16 makes it throw 'Unknown message type'; the error carries
\* the type byte.
C10_TypeErrors ==
    ParsedFrames =>
        \A i \in 1..lastCall.idx :
            (validateCrc16(msgBufferRaw[i])
                 /\ TypeOf(msgBufferRaw[i]) \notin DecodedTypes) =>
                /\ i = lastCall.idx
                /\ lastCall.thrown # None
                /\ lastCall.thrown[1].error
                     = (IF TypeOf(msgBufferRaw[i]) \in ReservedTypes
                        THEN "Message type not implemented"
                        ELSE "Unknown message type")
                /\ lastCall.thrown[1].event = Some(TypeOf(msgBufferRaw[i]))

\* a Command Information frame (0x80) after two decoded frames was refused
C10_Witness ==
    /\ ParsedFrames
    /\ lastCall.idx = 3
    /\ validateCrc16(msgBufferRaw[3])
    /\ TypeOf(msgBufferRaw[3]) = 128
    /\ lastCall.thrown # None
    /\ lastCall.thrown[1].error = "Message type not implemented"

\* C11: the response built for a frame of type byte t is the 10 bytes
\* 78 78 05 t 00 01 c1 c2 0D 0A, c1 c2 the CRC16 of 05 t 00 01, whatever
\* the other bytes of the frame.
C11_ResponseOfType ==
    (lastCall.op = "createResponse") =>
        msgBufferRaw =
            << <<120, 120, 5, lastCall.data[4], 0, 1>>
                 \o getCrc16(<<5, lastCall.data[4], 0, 1>>) \o <<13, 10>> >>

\* the response to a status frame with a payload: 78 78 05 13 00 01 e9 f1 0d 0a
C11_Witness ==
    /\ lastCall.op = "createResponse"
    /\ Len(lastCall.data) = 15
    /\ msgBufferRaw = << <<120, 120, 5, 19, 0, 1, 233, 241, 13, 10>> >>


\* the bytes of a frame between its type byte and its serial number
PayloadBytes(frame) == Slice(frame, 4, Len(frame) - 6)

\* C12: a CRC-valid frame of type 0x13 whose status payload is shorter than
\* 5 bytes makes parse throw the out-of-bounds error at that frame, and no
\* record is pushed for it.
C12_ShortStatusOutOfBounds ==
    ParsedFrames =>
        \A i \in 1..lastCall.idx :
            (validateCrc16(msgBufferRaw[i])
                 /\ TypeOf(msgBufferRaw[i]) = 19
                 /\ Len(PayloadBytes(msgBufferRaw[i])) < 5) =>
                /\ i = lastCall.idx
                /\ lastCall.thrown # None
                /\ lastCall.thrown[1].error = "Out of bounds"
                /\ Len(msgBuffer) = lastCall.base + i - 1


\* the LBS fields parse puts on a location payload
LbsFields == {"mcc", "mnc", "lac", "cellId"}

\* C13: a CRC-valid location frame with the whole 18-byte location block and
\* no LBS bytes before the serial number decodes: parse does not throw at it,
\* and its payload has the location fields and no LBS field.
C13_LocationWithoutLbsDecodes ==
    ParsedFrames =>
        \A i \in 1..lastCall.idx :
            (validateCrc16(msgBufferRaw[i])
                 /\ TypeOf(msgBufferRaw[i]) = 18
                 /\ Len(PayloadBytes(msgBufferRaw[i])) = 18) =>
                /\ (i = lastCall.idx => lastCall.thrown = None)
                /\ DOMAIN PayloadOf(msgBufferRaw[i]) \cap LbsFields = {}
                /\ "latitude" \in DOMAIN PayloadOf(msgBufferRaw[i])


\* the frame has, behind its 18-byte location block, a length byte 0 and at
\* least 8 more bytes before its serial number, CRC and stop marker
HasOemLbs(frame) == Len(frame) >= 37 /\ At(frame, 22) = 0

\* the LBS block such a frame holds: what readLbs reads behind the location
\* block, the cursor running to the end of the frame
OemLbsOf(frame) == readLbs(Cursor(Slice(frame, 22, Len(frame))), TRUE, 8).val

\* the LBS fields of a decoded payload: on the payload itself for a location,
\* under lbs for an alarm
LbsOfPayload(type, payload) ==
    IF type = 18 THEN [k \in DOMAIN payload \cap LbsFields |-> payload[k]]
    ELSE IF "lbs" \in DOMAIN payload THEN payload.lbs
    ELSE Null

\* C14: a CRC-valid location or alarm frame whose LBS block has a length byte
\* 0 and at least 8 bytes before the serial number decodes with MCC, MNC, LAC
\* and cell id read from the bytes behind the length byte.
C14_OemLbsPopulated ==
    ParsedFrames =>
        \A i \in 1..lastCall.idx :
            (validateCrc16(msgBufferRaw[i])
                 /\ TypeOf(msgBufferRaw[i]) \in {18, 22}
                 /\ HasOemLbs(msgBufferRaw[i])) =>
                /\ (i = lastCall.idx => lastCall.thrown = None)
                /\ LbsOfPayload(TypeOf(msgBufferRaw[i]), PayloadOf(msgBufferRaw[i]))
                     = OemLbsOf(msgBufferRaw[i])


\* a decoded coordinate (whole degrees and microdegrees) lies in [-max, max]
WithinDegrees(v, max) ==
    /\ v.deg \in (0 - max)..max
    /\ (v.deg = max \/ v.deg = 0 - max) => v.micro = 0

\* frame i of the latest chunk was decoded: the loop went past it
Decoded(i) == i < lastCall.idx \/ (i = lastCall.idx /\ lastCall.thrown = None)

\* C15: every decoded location frame has its course in 0..1023, its satellite
\* count in 0..15, its latitude in [-90, 90] and its longitude in [-180, 180].
C15_LocationRanges ==
    ParsedFrames =>
        \A i \in 1..lastCall.idx :
            (validateCrc16(msgBufferRaw[i]) /\ TypeOf(msgBufferRaw[i]) = 18
                 /\ Decoded(i)) =>
                /\ PayloadOf(msgBufferRaw[i]).course \in 0..1023
                /\ PayloadOf(msgBufferRaw[i]).satellites \in 0..15
                /\ WithinDegrees(PayloadOf(msgBufferRaw[i]).latitude, 90)
                /\ WithinDegrees(PayloadOf(msgBufferRaw[i]).longitude, 180)


\* the decimal digits packed two per byte, most significant first
RECURSIVE PackedDigits(_, _)
PackedDigits(b, i) ==
    IF i > Len(b) THEN <<>>
    ELSE <<b[i] \div 16, b[i] % 16>> \o PackedDigits(b, i + 1)

\* a digit string without its leading zeros ("0" for zero)
RECURSIVE WithoutLeadingZeros(_)
WithoutLeadingZeros(digits) ==
    IF Len(digits) > 1 /\ Head(digits) = 0 THEN WithoutLeadingZeros(Tail(digits))
    ELSE digits

\* the 8 IMEI bytes of a login frame
ImeiBytes(frame) == Slice(frame, 4, 12)

\* C16: a decoded login frame whose 8 IMEI bytes hold 16 decimal digits, two
\* per byte, has as IMEI the number those digits write, without leading
\* zeros: 01 23 45 67 89 01 23 45 gives 123456789012345.
C16_ImeiFromPackedDigits ==
    ParsedFrames =>
        \A i \in 1..lastCall.idx :
            (validateCrc16(msgBufferRaw[i]) /\ TypeOf(msgBufferRaw[i]) = 1
                 /\ Decoded(i)
                 /\ \A k \in 1..8 : /\ ImeiBytes(msgBufferRaw[i])[k] \div 16 <= 9
                                    /\ ImeiBytes(msgBufferRaw[i])[k] % 16 <= 9) =>
                PayloadOf(msgBufferRaw[i]).imei
                    = WithoutLeadingZeros(PackedDigits(ImeiBytes(msgBufferRaw[i]), 1))


\* C17: clearMsgBuffer leaves msgBuffer empty and changes nothing else: the
\* session's projected fields (event, payload with its IMEI, serialNumber,
\* expectsResponse, responseMsg) and msgBufferRaw keep their values.
C17_ClearOnlyEmptiesMsgBuffer ==
    [][(lastCall'.op = "clear") =>
          /\ msgBuffer' = <<>>
          /\ self' = self
          /\ msgBufferRaw' = msgBufferRaw]_vars

\* records were cleared after a login: its fields are still on the session
C17_Witness ==
    /\ lastCall.op = "clear"
    /\ lastCall.base > 0
    /\ msgBuffer = <<>>
    /\ self.event = Some(1)
    /\ self.payload # None
    /\ "imei" \in DOMAIN self.payload[1]
    /\ self.responseMsg # None
    /\ Len(msgBufferRaw) > 0


\* C18: under any sequence of u8, u16, u32, bytes(n) and skip(n) on a buffer
\* of length L, 0 <= offset <= L always and the offset never decreases; an
\* operation asking for more bytes than remain throws the out-of-bounds error
\* with the bytes asked for and the bytes remaining, reads nothing and leaves
\* the offset where it was; any other reads exactly the n bytes at the offset
\* and moves the offset by n.
C18_CursorOffset ==
    /\ [](cursor.offset \in 0..Len(cursor.buf))
    /\ [][/\ cursor'.buf = cursor.buf
          /\ cursor'.offset >= cursor.offset
          /\ lastCall'.base = cursor.offset
          /\ IF cursor.offset + lastCall'.idx > Len(cursor.buf)
             THEN /\ lastCall'.thrown # None
                  /\ lastCall'.thrown[1].error = "Out of bounds"
                  /\ lastCall'.thrown[1].need = Some(lastCall'.idx)
                  /\ lastCall'.thrown[1].have
                       = Some(Len(cursor.buf) - cursor.offset)
                  /\ lastCall'.data = <<>>
                  /\ cursor'.offset = cursor.offset
             ELSE /\ lastCall'.thrown = None
                  /\ cursor'.offset = cursor.offset + lastCall'.idx
                  /\ (lastCall'.op # "skip") =>
                         lastCall'.data
                           = [k \in 1..lastCall'.idx |-> cursor.buf[cursor.offset + k]]
         ]_vars

\* a u32 at offset 3 of a 6-byte buffer threw and left the offset at 3
C18_Witness ==
    /\ lastCall.op = "u32"
    /\ lastCall.thrown # None
    /\ lastCall.base = 3
    /\ cursor.offset = 3
    /\ Len(cursor.buf) = 6


\* the types that ask for a response: login, status, alarm; not location
ResponseTypes == {1, 19, 22}

C20_ThrowKeepsSessionFields ==
    [][/\ (lastCall'.op = "parse" /\ lastCall'.thrown # None) => self' = self
       /\ (self' # self) => (lastCall'.op = "parse" /\ lastCall'.thrown = None)
      ]_vars

\* a chunk failed at its second frame or later, its first frame decoded, and
\* the session still shows the event of an earlier call
C20_Witness ==
    /\ ParsedFrames
    /\ lastCall.thrown # None
    /\ lastCall.idx >= 2
    /\ Len(msgBuffer) > lastCall.base
    /\ self.event # None
    /\ self.event # Some(TypeOf(msgBufferRaw[1]))


\* the responses createResponse builds for the first k frames of the chunk
ResponsesBefore(k) == {Some(createResponse(msgBufferRaw[j])) : j \in 1..k}

C22_FramesStartWithMarker ==
    (lastCall.op = "parse") =>
        /\ lastCall.idx <= Len(msgBufferRaw)
        /\ \A i \in 1..Len(msgBufferRaw) : StartsWithMarker(msgBufferRaw[i])

\* three frames of one chunk reached the switch, each behind its start marker
C22_Witness ==
    /\ lastCall.op = "parse"
    /\ lastCall.thrown = None
    /\ lastCall.idx = 3
    /\ Len(msgBufferRaw) = 3
    /\ \A i \in 1..3 : StartsWithMarker(msgBufferRaw[i])


\* the length byte the latest readLbs call read, and the bytes behind it
LengthByte == cursor.buf[lastCall.base + 1]
BehindLengthByte == Len(cursor.buf) - lastCall.base - 1

\* C23: a readLbs call on a length byte L > 0 with at least L bytes behind it
\* returns an LBS record, throws nothing, and leaves the cursor 1 + L bytes
\* past the offset it started from.
C23_LbsBlockConsumed ==
    (lastCall.op = "readLbs" /\ BehindLengthByte >= 1
         /\ LengthByte > 0 /\ BehindLengthByte >= LengthByte) =>
        /\ lastCall.thrown = None
        /\ DOMAIN lastCall.data = {"mcc", "mnc", "lac", "cellId"}
        /\ cursor.offset = lastCall.base + 1 + LengthByte


\* a course bit, and the magnitude of a decoded coordinate
CourseBit(course, mask) == (course \div mask) % 2 = 1
Magnitude(v) == IF v.deg < 0 \/ v.micro < 0 THEN [deg |-> 0 - v.deg, micro |-> 0 - v.micro] ELSE v
NonNegative(v) == v.deg >= 0 /\ v.micro >= 0
NonPositive(v) == v.deg <= 0 /\ v.micro <= 0

\* C24: the decoded latitude is non-negative when course bit 0x0400 is set
\* and non-positive when it is clear, the decoded longitude non-positive when
\* bit 0x0800 is set and non-negative when it is clear, and the magnitude of
\* both is that of the raw value, whatever the course field.
C24_CoordinateSigns ==
    (lastCall.op = "decodeGt06") =>
        /\ IF CourseBit(lastCall.idx, 1024)
           THEN NonNegative(msgBufferRaw[1]) ELSE NonPositive(msgBufferRaw[1])
        /\ IF CourseBit(lastCall.idx, 2048)
           THEN NonPositive(msgBufferRaw[2]) ELSE NonNegative(msgBufferRaw[2])
        /\ Magnitude(msgBufferRaw[1]) = Gt06Magnitude(lastCall.data)
        /\ Magnitude(msgBufferRaw[2]) = Gt06Magnitude(lastCall.data)

\* raw 0x026b3f3e with bit 0x0400 clear and bit 0x0800 set: 22.546097 degrees
\* south and west
C24_Witness ==
    /\ lastCall.op = "decodeGt06"
    /\ lastCall.data = <<2, 107, 63, 62>>
    /\ ~CourseBit(lastCall.idx, 1024)
    /\ CourseBit(lastCall.idx, 2048)
    /\ msgBufferRaw[1] = [deg |-> -22, micro |-> -546097]
    /\ msgBufferRaw[2] = [deg |-> -22, micro |-> -546097]


\* bit k of a byte, and the value of its bits 3-5
BitOf(byte, k) == (byte \div (2 ^ k)) % 2 = 1
AlarmCodeOf(byte) == (byte \div 8) % 8

\* the five alarm values, by the value of bits 3-5
FiveAlarms == <<"normal", "shock", "power_cut", "low_battery", "sos">>

\* the flags of a decoded status byte equal its bits 7, 6, 2, 1, 0
FlagsOfBits(info, byte) ==
    /\ info.oilDisconnected = BitOf(byte, 7)
    /\ info.gpsTracking = BitOf(byte, 6)
    /\ info.charging = BitOf(byte, 2)
    /\ info.acc = BitOf(byte, 1)
    /\ info.activated = BitOf(byte, 0)

\* C25: for every status byte, the alarm decodeTerminalInfo returns is one of
\* normal, shock, power_cut, low_battery, sos, chosen by bits 3-5 of the
\* byte, and the flags oilDisconnected, gpsTracking, charging, acc, activated
\* equal bits 7, 6, 2, 1, 0.
C25_FiveAlarmValues ==
    (lastCall.op = "decodeTerminalInfo") =>
        /\ \E code \in 1..5 : msgBufferRaw[1].alarm = FiveAlarms[code]
        /\ FlagsOfBits(msgBufferRaw[1], lastCall.data[1])

\* C25, amended: the alarm is normal, shock, power_cut, low_battery, sos for
\* the values 0..4 of bits 3-5 and "unknown" for the values 5..7; the flags
\* equal bits 7, 6, 2, 1, 0 and raw is the byte.
C25_AlarmOfCode ==
    (lastCall.op = "decodeTerminalInfo") =>
        /\ msgBufferRaw[1].alarm
             = (IF AlarmCodeOf(lastCall.data[1]) <= 4
                THEN FiveAlarms[AlarmCodeOf(lastCall.data[1]) + 1]
                ELSE "unknown")
        /\ FlagsOfBits(msgBufferRaw[1], lastCall.data[1])
        /\ msgBufferRaw[1].raw = lastCall.data[1]

\* the byte 0x6f: GPS tracking on, bits 3-5 = 5, charging, ACC, activated
C25_Witness ==
    /\ lastCall.op = "decodeTerminalInfo"
    /\ lastCall.data = <<111>>
    /\ msgBufferRaw[1].alarm = "unknown"
    /\ msgBufferRaw[1].gpsTracking
    /\ ~msgBufferRaw[1].oilDisconnected
    /\ msgBufferRaw[1].charging

====
